---------------------------- MODULE Spec2Model ----------------------------
(***************************************************************************)
(* Model of pykeops/common/utils.py:                                       *)
(*   - create_and_lock_build_folder / FileLock: the guarded compilation    *)
(*     call run by several OS processes on shared build folders;           *)
(*   - check_broadcasting / max_tuple: merging of two batch shapes;        *)
(*   - get_tools: dispatch on the backend name.                            *)
(***************************************************************************)
EXTENDS Integers, Sequences, FiniteSets, TLC

(* ------------------------------ bounds -------------------------------- *)
NProcs == 3
MaxLen == 2
MaxDim == 4

Procs == 1..NProcs
Folders == {"A", "B"}
BuildTypes == {"Release", "Debug"}
Langs == {"numpy", "torch", "pytorch", "bogus", ""}

VARIABLES
    pc,          \* pc[p]: the statement of wrapper_filelock process p is about to run
    bf,          \* bf[p]: args[0].build_folder of p's call
    build_type,  \* pykeops.config.build_type
    dirExists,   \* dirExists[d]: the directory d exists
    lockFile,    \* lockFile[path]: inode linked at path (0: no such file)
    fd,          \* fd[p]: inode of the file object f that p has open (0: none)
    locked,      \* locked[p]: p's open file holds the exclusive flock
    loadable,    \* loadable[d]: module_exists(dll_name) for the artifact built in d
    func_res,    \* func_res[p]: value returned by func ("none": not assigned)
    exc,         \* exc[p]: exception raised in p's call ("none": no exception)
    ret,         \* ret[p]: value the call returned to its caller ("none": nothing)
    calls,       \* calls[p]: number of times p's call invoked func
    dims_1,      \* first argument of check_broadcasting
    dims_2,      \* second argument of check_broadcasting
    cb_out,      \* outcome of check_broadcasting(dims_1, dims_2)
    lang,        \* argument of get_tools
    tools_out    \* outcome of get_tools(lang)

lockVars == <<pc, bf, build_type, dirExists, lockFile, fd, locked,
              loadable, func_res, exc, ret, calls>>
pureVars == <<dims_1, dims_2, cb_out, lang, tools_out>>
vars == <<pc, bf, build_type, dirExists, lockFile, fd, locked,
          loadable, func_res, exc, ret, calls,
          dims_1, dims_2, cb_out, lang, tools_out>>

(* --------------------------- pure functions --------------------------- *)
Max(a, b) == IF a >= b THEN a ELSE b
Min(a, b) == IF a <= b THEN a ELSE b

\* Python's None and a present tuple
None == [some |-> FALSE, dims |-> <<>>]
Some(t) == [some |-> TRUE, dims |-> t]

\* (1,) * n : the empty tuple when n <= 0
Ones(n) == [i \in 1..Max(n, 0) |-> 1]

\* zip(a, b): stops at the shorter argument
Zip(a, b) == [i \in 1..Min(Len(a), Len(b)) |-> <<a[i], b[i]>>]

\* outcomes of a call: a returned value or a raised exception
Returned(v) == [kind |-> "ok", val |-> v, msg |-> <<>>]
Raised(e, m) == [kind |-> e, val |-> None, msg |-> m]
NotCalled == [kind |-> "none", val |-> None, msg |-> <<>>]

max_tuple(a, b) == [i \in 1..Len(Zip(a, b)) |-> Max(Zip(a, b)[i][1], Zip(a, b)[i][2])]

\* variant: the shorter shape padded on the right instead of the left
padded_dims_1_right(d1, d2) == d1 \o Ones(Len(d2) - Len(d1))

padded_dims_1(d1, d2) == Ones(Len(d2) - Len(d1)) \o d1
padded_dims_2(d1, d2) == Ones(Len(d1) - Len(d2)) \o d2

\* variant: any two different sizes are rejected, size 1 included
IncompatibleStrict(pair) == pair[1] # pair[2]

Incompatible(pair) == pair[1] # 1 /\ pair[2] # 1 /\ pair[1] # pair[2]

check_broadcasting(a, b) ==
    IF ~a.some THEN Returned(b)
    ELSE IF ~b.some THEN Returned(a)
    ELSE LET p1 == padded_dims_1(a.dims, b.dims)
             p2 == padded_dims_2(a.dims, b.dims)
             z  == Zip(p1, p2)
         IN  IF \E i \in 1..Len(z) : Incompatible(z[i])
             THEN Raised("ValueError", <<a.dims, b.dims>>)
             ELSE Returned(Some(max_tuple(p1, p2)))

\* the local variable `tools` after the if/elif of get_tools
ToolsLocal(l) ==
    IF l = "numpy" THEN "numpytools"
    ELSE IF l = "torch" \/ l = "pytorch" THEN "torchtools"
    ELSE "unbound"

\* `return tools`: reading a local that was never assigned raises UnboundLocalError
get_tools(l) ==
    IF ToolsLocal(l) = "unbound"
    THEN [kind |-> "UnboundLocalError", val |-> "none"]
    ELSE [kind |-> "ok", val |-> ToolsLocal(l)]

ToolsNotCalled == [kind |-> "none", val |-> "none"]

(* ------------------------- shapes used as inputs ---------------------- *)
Tuples == UNION {[1..n -> 0..MaxDim] : n \in 0..MaxLen}
Shapes == {None} \cup {Some(t) : t \in Tuples}

(* ------------------------ the guarded call ---------------------------- *)
\* variant: the lock file opened by its bare name, the same file for every folder
LockPathShared(d) == "A"

\* os.path.join(bf, 'pykeops_build2.lock'): one lock file per build folder
LockPath(d) == d

\* inode of a newly created file: a number no path and no open file refers to
InosInUse == {lockFile[d] : d \in Folders} \cup {fd[p] : p \in Procs}
FreshIno == CHOOSE i \in 1..(NProcs + 1) :
                /\ i \notin InosInUse
                /\ \A j \in 1..(i - 1) : j \in InosInUse

\* os.makedirs(bf, exist_ok=True)
Makedirs(p) ==
    /\ pc[p] = "makedirs"
    /\ dirExists' = [dirExists EXCEPT ![bf[p]] = TRUE]
    /\ pc' = [pc EXCEPT ![p] = "open"]
    /\ UNCHANGED <<bf, build_type, lockFile, fd, locked, loadable,
                   func_res, exc, ret, calls>>
    /\ UNCHANGED pureVars

\* open(os.path.join(bf, 'pykeops_build2.lock'), 'w')
Open(p) ==
    /\ pc[p] = "open"
    /\ IF dirExists[bf[p]]
       THEN /\ IF lockFile[LockPath(bf[p])] = 0
               THEN lockFile' = [lockFile EXCEPT ![LockPath(bf[p])] = FreshIno]
               ELSE lockFile' = lockFile
            /\ fd' = [fd EXCEPT ![p] = lockFile'[LockPath(bf[p])]]
            /\ pc' = [pc EXCEPT ![p] = "flock"]
            /\ exc' = exc
       ELSE /\ exc' = [exc EXCEPT ![p] = "FileNotFoundError"]
            /\ pc' = [pc EXCEPT ![p] = "failed"]
            /\ UNCHANGED <<lockFile, fd>>
    /\ UNCHANGED <<bf, build_type, dirExists, locked, loadable, func_res, ret, calls>>
    /\ UNCHANGED pureVars

\* fcntl.flock(fd, LOCK_EX) returns only when no other open file holds the
\* lock of the same inode
CanFlock(p) == \A q \in Procs \ {p} : ~(locked[q] /\ fd[q] = fd[p])

\* FileLock.__enter__
Flock(p) ==
    /\ pc[p] = "flock"
    /\ CanFlock(p)
    /\ locked' = [locked EXCEPT ![p] = TRUE]
    /\ pc' = [pc EXCEPT ![p] = "func"]
    /\ UNCHANGED <<bf, build_type, dirExists, lockFile, fd, loadable,
                   func_res, exc, ret, calls>>
    /\ UNCHANGED pureVars

\* func_res = func(*args, **kwargs): the compile action returns a value
\* (the artifact is then loadable or not) or raises
Func(p) ==
    /\ pc[p] = "func"
    /\ calls' = [calls EXCEPT ![p] = @ + 1]
    /\ \/ /\ func_res' = [func_res EXCEPT ![p] = "res"]
          /\ \E l \in BOOLEAN : loadable' = [loadable EXCEPT ![bf[p]] = l]
          /\ exc' = exc
       \/ /\ exc' = [exc EXCEPT ![p] = "CompilationFailure"]
          /\ UNCHANGED <<func_res, loadable>>
    /\ pc' = [pc EXCEPT ![p] = "exit"]
    /\ UNCHANGED <<bf, build_type, dirExists, lockFile, fd, locked, ret>>
    /\ UNCHANGED pureVars

\* variant: no scoped release, an exception in func skips the unlock and the close
WithExitLeak(p) ==
    /\ pc[p] = "exit"
    /\ locked' = [locked EXCEPT ![p] = IF exc[p] # "none" THEN @ ELSE FALSE]
    /\ fd' = [fd EXCEPT ![p] = IF exc[p] # "none" THEN @ ELSE 0]
    /\ pc' = [pc EXCEPT ![p] = IF exc[p] # "none" THEN "failed" ELSE "clean"]
    /\ UNCHANGED <<bf, build_type, dirExists, lockFile, loadable,
                   func_res, exc, ret, calls>>
    /\ UNCHANGED pureVars

\* variant: the cleanup placed in a finally block, run with the exception pending
WithExitThenClean(p) ==
    /\ pc[p] = "exit"
    /\ locked' = [locked EXCEPT ![p] = FALSE]
    /\ fd' = [fd EXCEPT ![p] = 0]
    /\ pc' = [pc EXCEPT ![p] = "clean"]
    /\ UNCHANGED <<bf, build_type, dirExists, lockFile, loadable,
                   func_res, exc, ret, calls>>
    /\ UNCHANGED pureVars

\* leaving `with FileLock(f)` and `with open(...) as f`: unlock, close, and
\* let a pending exception go on to the caller
WithExit(p) ==
    /\ pc[p] = "exit"
    /\ locked' = [locked EXCEPT ![p] = FALSE]
    /\ fd' = [fd EXCEPT ![p] = 0]
    /\ pc' = [pc EXCEPT ![p] = IF exc[p] # "none" THEN "failed" ELSE "clean"]
    /\ UNCHANGED <<bf, build_type, dirExists, lockFile, loadable,
                   func_res, exc, ret, calls>>
    /\ UNCHANGED pureVars

\* variant: `or` in place of `and`
CleanConditionOr(p) == loadable[bf[p]] \/ build_type = "Release"

\* module_exists(args[0].dll_name) and pykeops.config.build_type == 'Release'
CleanCondition(p) == loadable[bf[p]] /\ build_type = "Release"

Clean(p) ==
    /\ pc[p] = "clean"
    /\ pc' = [pc EXCEPT ![p] = IF CleanCondition(p) THEN "rmtree" ELSE "return"]
    /\ UNCHANGED <<bf, build_type, dirExists, lockFile, fd, locked,
                   loadable, func_res, exc, ret, calls>>
    /\ UNCHANGED pureVars

\* shutil.rmtree(bf), first half: list the folder and unlink its entries
RmtreeUnlink(p) ==
    /\ pc[p] = "rmtree"
    /\ IF dirExists[bf[p]]
       THEN /\ lockFile' = [lockFile EXCEPT ![LockPath(bf[p])] = 0]
            /\ pc' = [pc EXCEPT ![p] = "rmdir"]
            /\ exc' = exc
       ELSE /\ exc' = [exc EXCEPT ![p] = "FileNotFoundError"]
            /\ pc' = [pc EXCEPT ![p] = "failed"]
            /\ lockFile' = lockFile
    /\ UNCHANGED <<bf, build_type, dirExists, fd, locked, loadable,
                   func_res, ret, calls>>
    /\ UNCHANGED pureVars

\* shutil.rmtree(bf), second half: rmdir of the folder itself
RmtreeRmdir(p) ==
    /\ pc[p] = "rmdir"
    /\ IF ~dirExists[bf[p]]
       THEN /\ exc' = [exc EXCEPT ![p] = "FileNotFoundError"]
            /\ pc' = [pc EXCEPT ![p] = "failed"]
            /\ dirExists' = dirExists
       ELSE IF lockFile[LockPath(bf[p])] # 0
       THEN /\ exc' = [exc EXCEPT ![p] = "OSError"]
            /\ pc' = [pc EXCEPT ![p] = "failed"]
            /\ dirExists' = dirExists
       ELSE /\ dirExists' = [dirExists EXCEPT ![bf[p]] = FALSE]
            /\ pc' = [pc EXCEPT ![p] = "return"]
            /\ exc' = exc
    /\ UNCHANGED <<bf, build_type, lockFile, fd, locked, loadable,
                   func_res, ret, calls>>
    /\ UNCHANGED pureVars

\* return func_res
Return(p) ==
    /\ pc[p] = "return"
    /\ ret' = [ret EXCEPT ![p] = func_res[p]]
    /\ pc' = [pc EXCEPT ![p] = "done"]
    /\ UNCHANGED <<bf, build_type, dirExists, lockFile, fd, locked,
                   loadable, func_res, exc, calls>>
    /\ UNCHANGED pureVars

Terminated(p) == pc[p] \in {"done", "failed"}
Active(p) == pc[p] \notin {"makedirs", "done", "failed"}

(* --------------------------- specifications --------------------------- *)
PureIdle ==
    /\ dims_1 = None
    /\ dims_2 = None
    /\ cb_out = NotCalled
    /\ lang = "numpy"
    /\ tools_out = ToolsNotCalled

\* the build folder of each call; the processes run the same code, so they are
\* numbered with the callers of "A" first
FolderAssignments ==
    {[p \in Procs |-> IF p <= k THEN "A" ELSE "B"] : k \in 0..NProcs}

LockInit ==
    /\ pc = [p \in Procs |-> "makedirs"]
    /\ bf \in FolderAssignments
    /\ build_type \in BuildTypes
    /\ dirExists = [d \in Folders |-> FALSE]
    /\ lockFile = [d \in Folders |-> 0]
    /\ fd = [p \in Procs |-> 0]
    /\ locked = [p \in Procs |-> FALSE]
    /\ loadable = [d \in Folders |-> FALSE]
    /\ func_res = [p \in Procs |-> "none"]
    /\ exc = [p \in Procs |-> "none"]
    /\ ret = [p \in Procs |-> "none"]
    /\ calls = [p \in Procs |-> 0]

\* any interleaving of the processes' calls
Init == LockInit /\ PureIdle
Next ==
    \E p \in Procs :
        \/ Makedirs(p)
        \/ Open(p)
        \/ Flock(p)
        \/ Func(p)
        \/ WithExit(p)
        \/ Clean(p)
        \/ RmtreeUnlink(p)
        \/ RmtreeRmdir(p)
        \/ Return(p)
Spec == Init /\ [][Next]_vars

\* calls with no concurrent caller on the same build folder
Solo(p) == \A q \in Procs \ {p} : bf[q] = bf[p] => ~Active(q)
NextSolo ==
    \E p \in Procs :
        \/ Solo(p) /\ Makedirs(p)
        \/ Solo(p) /\ Open(p)
        \/ Solo(p) /\ Flock(p)
        \/ Solo(p) /\ Func(p)
        \/ Solo(p) /\ WithExit(p)
        \/ Solo(p) /\ Clean(p)
        \/ Solo(p) /\ RmtreeUnlink(p)
        \/ Solo(p) /\ RmtreeRmdir(p)
        \/ Solo(p) /\ Return(p)
SpecSolo == Init /\ [][NextSolo]_vars

\* the pure functions applied to inputs drawn from bounded sets
InitPure ==
    /\ LockInit /\ bf = [p \in Procs |-> "A"] /\ build_type = "Release"
    /\ dims_1 \in Shapes
    /\ dims_2 \in Shapes
    /\ cb_out = NotCalled
    /\ lang \in Langs
    /\ tools_out = ToolsNotCalled

CallCheckBroadcasting ==
    /\ cb_out = NotCalled
    /\ cb_out' = check_broadcasting(dims_1, dims_2)
    /\ UNCHANGED <<dims_1, dims_2, lang, tools_out>>
    /\ UNCHANGED lockVars

CallGetTools ==
    /\ tools_out = ToolsNotCalled
    /\ tools_out' = get_tools(lang)
    /\ UNCHANGED <<dims_1, dims_2, cb_out, lang>>
    /\ UNCHANGED lockVars

NextPure == CallCheckBroadcasting \/ CallGetTools
SpecPure == InitPure /\ [][NextPure]_vars


(* ------------------------------- claims ------------------------------- *)
\* C1: at most one process holds the build lock of a folder (is between its
\* flock and its unlock) at any time.
C1_MutualExclusion ==
    \A d \in Folders : Cardinality({p \in Procs : bf[p] = d /\ locked[p]}) <= 1

\* C2: a call that has terminated, by returning or by raising, holds no lock
\* and keeps no lock file open, so it blocks no later flock.
C2_LockReleasedOnExit ==
    \A p \in Procs : Terminated(p) => ~locked[p] /\ fd[p] = 0

\* a call ended with the compile failure and another process on the same
\* folder has acquired the lock and is inside its compile action
C2_Witness ==
    \E p, q \in Procs :
        /\ p # q /\ bf[p] = bf[q]
        /\ pc[p] = "failed" /\ exc[p] = "CompilationFailure"
        /\ pc[q] = "func" /\ locked[q]

\* C3: when func raises, the call ends with that exception, func is invoked
\* once only, nothing is returned, and the call never reaches the cleanup.
C3_FailurePropagates ==
    \A p \in Procs :
        /\ calls[p] <= 1
        /\ exc[p] = "CompilationFailure" =>
              /\ pc[p] \in {"exit", "failed"}
              /\ calls[p] = 1
              /\ ret[p] = "none"
              /\ func_res[p] = "none"

\* a failed call in Release mode with a loadable artifact and the folder in place
C3_Witness ==
    \E p \in Procs :
        /\ pc[p] = "failed" /\ exc[p] = "CompilationFailure"
        /\ build_type = "Release" /\ loadable[bf[p]] /\ dirExists[bf[p]]

\* C4: with no concurrent caller on the folder, at the return of a call whose
\* func succeeded the folder is gone iff the artifact is loadable and the
\* build type is Release, and the call returns func's result.
C4_CleanupIff ==
    [][\A p \in Procs :
          (pc[p] = "return" /\ pc'[p] = "done") =>
              /\ ~dirExists'[bf[p]] <=> (loadable'[bf[p]] /\ build_type = "Release")
              /\ ret'[p] = "res"
              /\ exc'[p] = "none"]_vars

\* a Release call with a loadable artifact returned and its folder is gone
C4_Witness ==
    \E p \in Procs :
        /\ pc[p] = "done" /\ ret[p] = "res"
        /\ build_type = "Release" /\ loadable[bf[p]] /\ ~dirExists[bf[p]]

\* C5: a call whose func succeeded raises no error, whatever the other
\* callers' cleanups did to the folder.
C5_CleanupRaceBenign ==
    \A p \in Procs : func_res[p] = "res" => exc[p] = "none"

\* C6: a step of a call on one folder leaves every other folder, its lock
\* file, its artifact and the callers on it untouched, and a flock on a
\* folder none of whose callers holds a lock is not blocked.
C6_Independent ==
    [][\A p \in Procs :
          /\ (pc[p] = "flock" /\ \A q \in Procs \ {p} : bf[q] = bf[p] => ~locked[q])
                => CanFlock(p)
          /\ pc'[p] # pc[p] =>
                /\ \A d \in Folders \ {bf[p]} :
                      /\ dirExists'[d] = dirExists[d]
                      /\ lockFile'[d] = lockFile[d]
                      /\ loadable'[d] = loadable[d]
                /\ \A q \in Procs :
                      bf[q] # bf[p] =>
                          /\ pc'[q] = pc[q]
                          /\ fd'[q] = fd[q]
                          /\ locked'[q] = locked[q]]_vars

\* two processes are inside their compile actions for two different folders
C6_Witness ==
    \E p, q \in Procs :
        /\ bf[p] = "A" /\ bf[q] = "B"
        /\ pc[p] = "func" /\ locked[p]
        /\ pc[q] = "func" /\ locked[q]

\* the i-th of n aligned sizes of shape d, the shorter shape padded with 1s on the left
AlignedDim(d, i, n) == IF i <= n - Len(d) THEN 1 ELSE d[i - (n - Len(d))]
CommonLen(a, b) == Max(Len(a.dims), Len(b.dims))
SomePairIncompatible(a, b) ==
    \E i \in 1..CommonLen(a, b) :
        LET x == AlignedDim(a.dims, i, CommonLen(a, b))
            y == AlignedDim(b.dims, i, CommonLen(a, b))
        IN  x # y /\ x # 1 /\ y # 1
ReferenceMerge(a, b) ==
    IF ~a.some THEN b
    ELSE IF ~b.some THEN a
    ELSE Some([i \in 1..CommonLen(a, b) |->
                  Max(AlignedDim(a.dims, i, CommonLen(a, b)),
                      AlignedDim(b.dims, i, CommonLen(a, b)))])

\* C7: with both shapes present check_broadcasting raises iff some aligned
\* pair of sizes differs with neither size 1, and the error carries both
\* original shapes.
C7_FailsIffIncompatible ==
    (cb_out # NotCalled /\ dims_1.some /\ dims_2.some) =>
        /\ cb_out.kind = "ValueError" <=> SomePairIncompatible(dims_1, dims_2)
        /\ cb_out.kind = "ValueError" => cb_out.msg = <<dims_1.dims, dims_2.dims>>
        /\ cb_out.kind # "ValueError" => cb_out.kind = "ok"

\* check_broadcasting((3,4), (2,4)) raised
C7_Witness ==
    /\ dims_1 = Some(<<3, 4>>) /\ dims_2 = Some(<<2, 4>>)
    /\ cb_out = Raised("ValueError", <<<<3, 4>>, <<2, 4>>>>)

\* C8: when check_broadcasting returns, its result is the other input if one
\* is None, else the elementwise max of the left-padded shapes, of the
\* longer length, and swapping the arguments gives the same result.
C8_MergeIsReference ==
    cb_out.kind = "ok" =>
        /\ cb_out.val = ReferenceMerge(dims_1, dims_2)
        /\ check_broadcasting(dims_2, dims_1) = cb_out
        /\ (dims_1.some /\ dims_2.some) =>
              Len(cb_out.val.dims) = Max(Len(dims_1.dims), Len(dims_2.dims))

\* check_broadcasting((4,), (3,4)) returned (3,4)
C8_Witness ==
    /\ dims_1 = Some(<<4>>) /\ dims_2 = Some(<<3, 4>>)
    /\ cb_out = Returned(Some(<<3, 4>>))

\* C9: get_tools of a name other than numpy, torch and pytorch fails with
\* the explicit unknown-backend error.
C9_UnknownBackendExplicit ==
    (tools_out # ToolsNotCalled /\ lang \notin {"numpy", "torch", "pytorch"}) =>
        tools_out.kind = "UnknownBackend"

\* C10: every call that has terminated acquired the lock and ran its compile
\* action (once) before terminating.
C10_EveryCallCompiles ==
    \A p \in Procs : Terminated(p) => calls[p] = 1

=============================================================================
